---- MODULE Spec2Model ----
(***************************************************************************)
(* Reservation store of src/main.py: one SQLite table "reservations"       *)
(* behind six request handlers.                                            *)
(*                                                                         *)
(* Texts whose characters the program looks at (check_out, through         *)
(* substr() and date()) are sequences of one-character strings.  Other     *)
(* texts are TLA+ strings.  Python None / SQL NULL is the value NULL.      *)
(* created_at, the ISO text of utcnow(), is the pair <<second, fraction>>; *)
(* ISO texts of one width order as these pairs do.                         *)
(***************************************************************************)
EXTENDS Integers, Sequences, FiniteSets, TLC

\* Record constructors list their fields in one fixed order throughout.

VARIABLES
    store,      \* table reservations: id -> row
    seq,        \* sqlite_sequence.seq of the AUTOINCREMENT key
    now,        \* the clock utcnow() reads: <<second, fraction>>
    today,      \* index in Days of the day date('now') returns
    resp,       \* the response of the last completed request
    pc,         \* statement-level callers: position in the handler
    req,        \* statement-level callers: the request being served
    current,    \* update_reservation: the row read first (local "current")
    written,    \* update_reservation: the values bound to the UPDATE
    counted,    \* cleanup_expired_reservations: the count read first (local "to_delete")
    ret         \* statement-level callers: the response produced

vars == <<store, seq, now, today, resp, pc, req, current, written, counted, ret>>

\* ------------------------------------------------------------------ bounds
MaxCreates == 3     \* ids a behaviour of Spec may assign
MaxRows == 2        \* ids a behaviour of the other specifications may assign
MaxSec == 1         \* last second of the clock

NULL == "<NULL>"
None == [none |-> TRUE]     \* fetchone() that found no row
NoDate == <<>>      \* SQL NULL as the result of date()

Max(a, b) == IF a >= b THEN a ELSE b

\* ------------------------------------------------------------ text helpers
Digits == {"0", "1", "2", "3", "4", "5", "6", "7", "8", "9"}

DigitVal(c) ==
    CASE c = "0" -> 0 [] c = "1" -> 1 [] c = "2" -> 2 [] c = "3" -> 3
      [] c = "4" -> 4 [] c = "5" -> 5 [] c = "6" -> 6 [] c = "7" -> 7
      [] c = "8" -> 8 [] c = "9" -> 9

\* Byte value of a character, for SQLite's BINARY text comparison.
CharCode(c) ==
    CASE c = " " -> 32 [] c = "-" -> 45 [] c = ":" -> 58
      [] OTHER -> 48 + DigitVal(c)

\* substr(s, 1, n): the first n characters, or all of s when it is shorter.
substr(s, n) == SubSeq(s, 1, IF Len(s) < n THEN Len(s) ELSE n)

\* memcmp order of two texts: a < b.
RECURSIVE TextLess(_, _)
TextLess(a, b) ==
    IF b = <<>> THEN FALSE
    ELSE IF a = <<>> THEN TRUE
    ELSE IF CharCode(Head(a)) /= CharCode(Head(b))
         THEN CharCode(Head(a)) < CharCode(Head(b))
    ELSE TextLess(Tail(a), Tail(b))

TwoDigits(s, i) == 10 * DigitVal(s[i]) + DigitVal(s[i + 1])

IsYmd(s) ==
    /\ Len(s) = 10
    /\ \A i \in {1, 2, 3, 4, 6, 7, 9, 10} : s[i] \in Digits
    /\ s[5] = "-" /\ s[8] = "-"
    /\ TwoDigits(s, 6) \in 1..12
    /\ TwoDigits(s, 9) \in 1..31

IsHm(s) ==
    /\ Len(s) = 5
    /\ \A i \in {1, 2, 4, 5} : s[i] \in Digits
    /\ s[3] = ":"
    /\ TwoDigits(s, 1) \in 0..24
    /\ TwoDigits(s, 4) \in 0..59

\* SQLite date(s) with no modifier: a YYYY-MM-DD text with month 1..12 and
\* day 1..31 is returned as it is, a time-only HH:MM text is a time on
\* 2000-01-01, any other text of the model gives NULL.
date(s) ==
    IF IsYmd(s) THEN s
    ELSE IF IsHm(s) THEN <<"2", "0", "0", "0", "-", "0", "1", "-", "0", "1">>
    ELSE NoDate

\* ------------------------------------------------------------ input sets
D0229 == <<"2", "0", "2", "4", "-", "0", "2", "-", "2", "9">>
D0301 == <<"2", "0", "2", "4", "-", "0", "3", "-", "0", "1">>
D0302 == <<"2", "0", "2", "4", "-", "0", "3", "-", "0", "2">>
D1231 == <<"2", "0", "2", "3", "-", "1", "2", "-", "3", "1">>
Hm1200 == <<"1", "2", ":", "0", "0">>

\* The days date('now') returns as the model's time passes.
Days == <<D0229, D0301, D0302>>

DT0301 == D0301 \o <<" ", "1", "2", ":", "0", "0">>
Bad31 == <<"2", "0", "2", "4", "-", "3", "-", "1">>

\* Request bodies of POST /api/public/reservations (class ReservationCreate).
\* guest_name stands for every column the handler copies from the payload
\* and no statement ever reads or writes again (guest_email, guest_phone,
\* check_in, the times, room_type, the counts, total_price).
Payload(g, co, ps, sr, ex) ==
    [guest_name |-> g, check_out |-> co, payment_status |-> ps,
     special_requests |-> sr, experiences |-> ex]

Payloads ==
    { Payload("ann", D1231, "pending", NULL, NULL),
      Payload("bob", DT0301, "paid", "late", "spa"),
      Payload("cyd", D0229, "", "", ""),
      Payload("dee", D0302, "pending", NULL, "spa"),
      Payload("eve", Bad31, "paid", "late", NULL),
      Payload("fay", Hm1200, "pending", "", NULL) }

\* The payloads of the specifications that edit rows.
EditPayloads ==
    { Payload("ann", D1231, "pending", NULL, NULL),
      Payload("bob", DT0301, "paid", "late", "spa") }

\* Query parameters of PATCH /api/admin/reservations/{id}.
PsIn == {NULL, "", "paid"}
SrIn == {NULL, "", "late"}
ExIn == {NULL, "", "spa"}

\* The parameter triples of the specification that runs the clock.
FewEdits == {<<"paid", NULL, NULL>>, <<NULL, "", "spa">>}

Callers == {"a", "b"}

\* ------------------------------------------------------- SQL statements
\* The largest rowid of the table, 0 when it is empty.
MaxRowid(s) ==
    IF DOMAIN s = {} THEN 0
    ELSE CHOOSE i \in DOMAIN s : \A j \in DOMAIN s : j <= i

\* A key without AUTOINCREMENT: one more than the largest rowid now stored.
NextRowidReuse(s, q) == MaxRowid(s) + 1

\* INTEGER PRIMARY KEY AUTOINCREMENT: one more than the largest rowid the
\* table has ever held, which sqlite_sequence remembers.
NextRowid(s, q) == Max(q, MaxRowid(s)) + 1

\* An INSERT that binds special_requests or "" as it does experiences.
InsertRowBlankRequests(s, id, p, created) ==
    [i \in DOMAIN s \cup {id} |->
        IF i = id
        THEN [guest_name |-> p.guest_name,
              check_out |-> p.check_out,
              payment_status |-> p.payment_status,
              special_requests |-> IF p.special_requests \in {NULL, ""} THEN ""
                                   ELSE p.special_requests,
              experiences |-> IF p.experiences \in {NULL, ""} THEN ""
                              ELSE p.experiences,
              id |-> id,
              created_at |-> created]
        ELSE s[i]]

\* INSERT INTO reservations (...) VALUES (...), with payload.experiences or "".
InsertRow(s, id, p, created) ==
    [i \in DOMAIN s \cup {id} |->
        IF i = id
        THEN [guest_name |-> p.guest_name,
              check_out |-> p.check_out,
              payment_status |-> p.payment_status,
              special_requests |-> p.special_requests,
              experiences |-> IF p.experiences \in {NULL, ""} THEN ""
                              ELSE p.experiences,
              id |-> id,
              created_at |-> created]
        ELSE s[i]]

\* SELECT * FROM reservations WHERE id = ? ; fetchone(): the row or None.
SelectById(s, id) == IF id \in DOMAIN s THEN s[id] ELSE None

\* An UPDATE without its WHERE clause: every row takes the values.
UpdateEveryRow(s, id, v) ==
    [i \in DOMAIN s |->
        [s[i] EXCEPT !.payment_status = v[1],
                     !.special_requests = v[2],
                     !.experiences = v[3]]]

\* An UPDATE that keeps a column when the value bound to it is None or ""
\* (SET col = COALESCE(NULLIF(?, ''), col)).
UpdateRowSkipBlank(s, id, v) ==
    [i \in DOMAIN s |->
        IF i = id
        THEN [s[i] EXCEPT
                !.payment_status = IF v[1] \in {NULL, ""} THEN @ ELSE v[1],
                !.special_requests = IF v[2] \in {NULL, ""} THEN @ ELSE v[2],
                !.experiences = IF v[3] \in {NULL, ""} THEN @ ELSE v[3]]
        ELSE s[i]]

\* UPDATE reservations SET payment_status = ?, special_requests = ?,
\* experiences = ? WHERE id = ?
UpdateRow(s, id, v) ==
    [i \in DOMAIN s |->
        IF i = id
        THEN [s[i] EXCEPT !.payment_status = v[1],
                          !.special_requests = v[2],
                          !.experiences = v[3]]
        ELSE s[i]]

\* A DELETE whose WHERE matches the id and every smaller one (id <= ?).
DeleteUpTo(s, id) == [i \in {j \in DOMAIN s : j > id} |-> s[i]]

\* DELETE FROM reservations WHERE id = ?
DeleteById(s, id) == [i \in DOMAIN s \ {id} |-> s[i]]

\* cur.rowcount of that DELETE.
DeleteRowcount(s, id) == IF id \in DOMAIN s THEN 1 ELSE 0

\* The comparison written <= : a stay ending today counts as expired.
IsExpiredInclusive(r, day) ==
    LET d == date(substr(r.check_out, 10))
    IN  d /= NoDate /\ ~TextLess(day, d)

\* WHERE date(substr(check_out, 1, 10)) < date('now'); a NULL date makes the
\* comparison NULL, which selects nothing.
IsExpired(r, day) ==
    LET d == date(substr(r.check_out, 10))
    IN  d /= NoDate /\ TextLess(d, day)

ExpiredIds(s, day) == {i \in DOMAIN s : IsExpired(s[i], day)}

\* SELECT COUNT(*) ... WHERE <expired>
CountExpired(s, day) == Cardinality(ExpiredIds(s, day))

\* A DELETE that stops after the first expired row (LIMIT 1).
DeleteExpiredOne(s, day) ==
    LET e == ExpiredIds(s, day)
        first == {i \in e : \A j \in e : i <= j}
    IN  [i \in DOMAIN s \ first |-> s[i]]

\* DELETE FROM reservations WHERE <expired>
DeleteExpired(s, day) == [i \in DOMAIN s \ ExpiredIds(s, day) |-> s[i]]

\* datetime(created_at): the text to the second, the fraction dropped.
datetime(c) == c[1]

\* SELECT * ... ORDER BY datetime(created_at) DESC: every row once, the sort
\* key non-increasing; SQL leaves the order inside one key value open.
OrderedDesc(s) ==
    LET n == Cardinality(DOMAIN s)
    IN  { [k \in 1..n |-> s[f[k]]] :
            f \in { g \in [1..n -> DOMAIN s] :
                      /\ \A a, b \in 1..n : a /= b => g[a] /= g[b]
                      /\ \A a, b \in 1..n :
                           a < b => datetime(s[g[a]].created_at)
                                      >= datetime(s[g[b]].created_at) } }

\* The three parameters all taken by truthiness (x or current[...]).
NewValuesTruthy(cur, ps, sr, ex) ==
    << IF ps \in {NULL, ""} THEN cur.payment_status ELSE ps,
       IF sr \in {NULL, ""} THEN cur.special_requests ELSE sr,
       IF ex \in {NULL, ""} THEN cur.experiences ELSE ex >>

\* update_reservation's new_payment_status, new_special_requests and
\* new_experiences, from the row read and the three parameters.
NewValues(cur, ps, sr, ex) ==
    << IF ps \in {NULL, ""} THEN cur.payment_status ELSE ps,
       IF sr /= NULL THEN sr ELSE cur.special_requests,
       IF ex /= NULL THEN ex ELSE cur.experiences >>

\* ------------------------------------------------------------- responses
NotFound == [status |-> 404, body |-> "Reservation not found"]
ServerError == [status |-> 500, body |-> "TypeError"]
Ok(b) == [status |-> 200, body |-> b]

\* Reservation(**dict(row)); dict(None) raises TypeError, which the
\* framework answers with status 500.
Reservation(row) == IF row = None THEN ServerError ELSE Ok(row)

\* get_reservation as a function of the table.
GetResponse(s, id) ==
    IF SelectById(s, id) = None THEN NotFound ELSE Reservation(SelectById(s, id))

\* delete_reservation's response from cur.rowcount.
DeleteResponse(n, id) ==
    IF n = 0 THEN NotFound ELSE Ok([status |-> "ok", deleted_id |-> id])

CleanupResponse(n, d) == Ok([status |-> "ok", to_delete |-> n, deleted_count |-> d])

Answer(op, r) == [status |-> r.status, body |-> r.body, op |-> op]

\* update_reservation as a function of the table: the table it leaves and
\* its response.
UpdateResult(s, id, ps, sr, ex) ==
    LET row == SelectById(s, id)
    IN  IF row = None
        THEN [store |-> s, response |-> NotFound]
        ELSE LET s1 == UpdateRow(s, id, NewValues(row, ps, sr, ex))
             IN  [store |-> s1, response |-> Reservation(SelectById(s1, id))]

\* ------------------------------------------------------------------ state
NoRow == [i \in {} |-> None]

NoAnswer == [status |-> 0, body |-> NULL, op |-> "none"]

NoReq == [payment_status |-> NULL, special_requests |-> NULL,
          experiences |-> NULL, id |-> 0, op |-> "none"]

InitCallers ==
    /\ pc = [c \in Callers |-> "idle"]
    /\ req = [c \in Callers |-> NoReq]
    /\ current = [c \in Callers |-> None]
    /\ written = [c \in Callers |-> <<>>]
    /\ counted = [c \in Callers |-> 0]
    /\ ret = [c \in Callers |-> NoAnswer]

Init ==
    /\ store = NoRow
    /\ seq = 0
    /\ now = <<0, 0>>
    /\ today = 1
    /\ resp = NoAnswer
    /\ InitCallers

callerVars == <<pc, req, current, written, counted, ret>>

\* ------------------------------------------- handlers, one request at a time
\* POST /api/public/reservations
create_reservation(payload) ==
    /\ LET new_id == NextRowid(store, seq)
           s1 == InsertRow(store, new_id, payload, now)
       IN  /\ store' = s1
           /\ seq' = new_id
           /\ resp' = Answer("create", Reservation(SelectById(s1, new_id)))
    /\ UNCHANGED <<now, today, callerVars>>

\* GET /api/admin/reservations
list_reservations ==
    /\ \E rows \in OrderedDesc(store) : resp' = Answer("list", Ok(rows))
    /\ UNCHANGED <<store, seq, now, today, callerVars>>

\* GET /api/admin/reservations/{reservation_id}
get_reservation(reservation_id) ==
    /\ resp' = Answer("get", GetResponse(store, reservation_id))
    /\ UNCHANGED <<store, seq, now, today, callerVars>>

\* PATCH /api/admin/reservations/{reservation_id}
update_reservation(reservation_id, payment_status, special_requests, experiences) ==
    LET r == UpdateResult(store, reservation_id,
                          payment_status, special_requests, experiences)
    IN  /\ store' = r.store
        /\ resp' = Answer("update", r.response)
        /\ UNCHANGED <<seq, now, today, callerVars>>

\* DELETE /api/admin/reservations/{reservation_id}
delete_reservation(reservation_id) ==
    /\ store' = DeleteById(store, reservation_id)
    /\ resp' = Answer("delete",
                      DeleteResponse(DeleteRowcount(store, reservation_id), reservation_id))
    /\ UNCHANGED <<seq, now, today, callerVars>>

\* POST /api/admin/reservations/cleanup-expired
cleanup_expired_reservations ==
    LET to_delete == CountExpired(store, Days[today])
        s1 == DeleteExpired(store, Days[today])
        deleted == Cardinality(DOMAIN store) - Cardinality(DOMAIN s1)
    IN  /\ store' = s1
        /\ resp' = Answer("cleanup", CleanupResponse(to_delete, deleted))
        /\ UNCHANGED <<seq, now, today, callerVars>>

\* The clock utcnow() reads moves on; the model reads it to the half second.
Tick ==
    /\ \/ now[2] < 1 /\ now' = <<now[1], now[2] + 1>>
       \/ now[1] < MaxSec /\ \E f \in 0..1 : now' = <<now[1] + 1, f>>
    /\ UNCHANGED <<store, seq, today, resp, callerVars>>

\* The day date('now') returns moves on.
NextDay ==
    /\ today < Len(Days)
    /\ today' = today + 1
    /\ UNCHANGED <<store, seq, now, resp, callerVars>>

\* Records through their life: created, read, deleted, expired.
Next ==
    \/ \E p \in Payloads : seq < MaxCreates /\ create_reservation(p)
    \/ \E i \in 1..MaxCreates : get_reservation(i)
    \/ \E i \in 1..MaxCreates : delete_reservation(i)
    \/ cleanup_expired_reservations
    \/ NextDay

Spec == Init /\ [][Next]_vars

\* Records edited with every combination of the three parameters.
NextEdit ==
    \/ \E p \in EditPayloads : seq < MaxRows /\ create_reservation(p)
    \/ \E i \in 1..MaxRows, ps \in PsIn, sr \in SrIn, ex \in ExIn :
          update_reservation(i, ps, sr, ex)
    \/ \E i \in 1..MaxRows : get_reservation(i)
    \/ \E i \in 1..MaxRows : delete_reservation(i)

SpecEdit == Init /\ [][NextEdit]_vars

\* Records created, edited, deleted and listed while the clock runs.
NextClock ==
    \/ \E p \in EditPayloads : seq < MaxRows /\ create_reservation(p)
    \/ \E i \in 1..MaxRows, u \in FewEdits :
          update_reservation(i, u[1], u[2], u[3])
    \/ \E i \in 1..MaxRows : delete_reservation(i)
    \/ list_reservations
    \/ Tick

SpecClock == Init /\ [][NextClock]_vars

\* ------------------------------- handlers, statement by statement, two callers
\* Every request has its own connection; a statement with its commit is one
\* step, and the steps of two requests interleave freely.
sharedVars == <<seq, now, today, resp>>

UpdateReq(id, ps, sr, ex) ==
    [payment_status |-> ps, special_requests |-> sr, experiences |-> ex,
     id |-> id, op |-> "update"]

DeleteReq(id) == [NoReq EXCEPT !.op = "delete", !.id = id]

CleanupReq == [NoReq EXCEPT !.op = "cleanup"]

\* A request arrives.
Start(c, r) ==
    /\ pc[c] = "idle"
    /\ req' = [req EXCEPT ![c] = r]
    /\ pc' = [pc EXCEPT ![c] = r.op]
    /\ UNCHANGED <<store, sharedVars, current, written, counted, ret>>

\* update_reservation: the first SELECT, the 404, and the three new values.
UpdRead(c) ==
    /\ pc[c] = "update"
    /\ LET row == SelectById(store, req[c].id)
       IN  IF row = None
           THEN /\ ret' = [ret EXCEPT ![c] = Answer("update", NotFound)]
                /\ pc' = [pc EXCEPT ![c] = "done"]
                /\ UNCHANGED <<current, written>>
           ELSE /\ current' = [current EXCEPT ![c] = row]
                /\ written' = [written EXCEPT ![c] =
                      NewValues(row, req[c].payment_status,
                                req[c].special_requests, req[c].experiences)]
                /\ pc' = [pc EXCEPT ![c] = "update_write"]
                /\ ret' = ret
    /\ UNCHANGED <<store, sharedVars, req, counted>>

\* update_reservation: the UPDATE and its commit.
UpdWrite(c) ==
    /\ pc[c] = "update_write"
    /\ store' = UpdateRow(store, req[c].id, written[c])
    /\ pc' = [pc EXCEPT ![c] = "update_reread"]
    /\ UNCHANGED <<sharedVars, req, current, written, counted, ret>>

\* update_reservation: the second SELECT and the response.
UpdReread(c) ==
    /\ pc[c] = "update_reread"
    /\ ret' = [ret EXCEPT ![c] =
                 Answer("update", Reservation(SelectById(store, req[c].id)))]
    /\ pc' = [pc EXCEPT ![c] = "done"]
    /\ UNCHANGED <<store, sharedVars, req, current, written, counted>>

\* delete_reservation: the DELETE, its commit and the response.
Del(c) ==
    /\ pc[c] = "delete"
    /\ store' = DeleteById(store, req[c].id)
    /\ ret' = [ret EXCEPT ![c] =
                 Answer("delete", DeleteResponse(DeleteRowcount(store, req[c].id),
                                                 req[c].id))]
    /\ pc' = [pc EXCEPT ![c] = "done"]
    /\ UNCHANGED <<sharedVars, req, current, written, counted>>

\* cleanup_expired_reservations: the SELECT COUNT(*).
ClnCount(c) ==
    /\ pc[c] = "cleanup"
    /\ counted' = [counted EXCEPT ![c] = CountExpired(store, Days[today])]
    /\ pc' = [pc EXCEPT ![c] = "cleanup_delete"]
    /\ UNCHANGED <<store, sharedVars, req, current, written, ret>>

\* cleanup_expired_reservations: the DELETE, its commit and the response.
ClnDelete(c) ==
    /\ pc[c] = "cleanup_delete"
    /\ LET s1 == DeleteExpired(store, Days[today])
       IN  /\ store' = s1
           /\ ret' = [ret EXCEPT ![c] =
                 Answer("cleanup",
                        CleanupResponse(counted[c],
                            Cardinality(DOMAIN store) - Cardinality(DOMAIN s1)))]
    /\ pc' = [pc EXCEPT ![c] = "done"]
    /\ UNCHANGED <<sharedVars, req, current, written, counted>>

\* The table after one create_reservation, two callers about to send a request.
InitConc ==
    /\ \E p \in EditPayloads : store = InsertRow(NoRow, 1, p, <<0, 0>>)
    /\ seq = 1
    /\ now = <<0, 0>>
    /\ today = 1
    /\ resp = NoAnswer
    /\ InitCallers

NextConc ==
    \E c \in Callers :
        \/ \E i \in 1..MaxRows, ps \in PsIn, sr \in SrIn, ex \in ExIn :
              Start(c, UpdateReq(i, ps, sr, ex))
        \/ \E i \in 1..MaxRows : Start(c, DeleteReq(i))
        \/ Start(c, CleanupReq)
        \/ UpdRead(c)
        \/ UpdWrite(c)
        \/ UpdReread(c)
        \/ Del(c)
        \/ ClnCount(c)
        \/ ClnDelete(c)

SpecConc == InitConc /\ [][NextConc]_vars

\* ---------------------------------------------------------------- claims
\* The number of the calendar day a date text 'YYYY-MM-DD' names; days later
\* in the calendar have larger numbers.
DayNumber(d) ==
    (1000 * DigitVal(d[1]) + 100 * DigitVal(d[2]) + TwoDigits(d, 3)) * 372
      + TwoDigits(d, 6) * 31 + TwoDigits(d, 9)

\* The rows whose check-out date is a day strictly before the day `day`.
EndedBefore(s, day) ==
    {i \in DOMAIN s :
        LET d == date(substr(s[i].check_out, 10))
        IN  d /= NoDate /\ DayNumber(d) < DayNumber(day)}

\* C1: every Create returns an id strictly greater than every id assigned
\* before it (sqlite_sequence holds the largest of them), also when the rows
\* that held those ids are gone; an id that left the table never comes back,
\* and a row is stored under its own id.
C1_IdsNeverReused ==
    /\ [](\A i \in DOMAIN store : store[i].id = i /\ i <= seq)
    /\ [][/\ seq' >= seq
          /\ \A i \in 1..seq : i \notin DOMAIN store => i \notin DOMAIN store'
          /\ \A p \in Payloads :
               create_reservation(p) =>
                 /\ resp'.status = 200
                 /\ resp'.body.id > seq
                 /\ \A i \in DOMAIN store : resp'.body.id > i
                 /\ seq' = resp'.body.id
                 /\ DOMAIN store' = DOMAIN store \cup {resp'.body.id}]_vars

\* C1 witness: a Create answered with id 3 while the table held no row: the
\* rows of ids 1 and 2, the largest included, had been deleted before it.
C1_Witness ==
    /\ resp.op = "create" /\ resp.status = 200
    /\ resp.body.id = 3
    /\ DOMAIN store = {3}

\* C4: CleanupExpired removes exactly the rows whose check-out day is before
\* today, keeps every other row as it was, answers status ok, and reports
\* to_delete and deleted_count both equal to the number of rows removed.
C4_CleanupRemovesExactlyPast ==
    [][cleanup_expired_reservations =>
         LET past == EndedBefore(store, Days[today])
         IN  /\ DOMAIN store' = DOMAIN store \ past
             /\ \A i \in DOMAIN store' : store'[i] = store[i]
             /\ resp'.status = 200
             /\ resp'.body.status = "ok"
             /\ resp'.body.to_delete = Cardinality(past)
             /\ resp'.body.deleted_count = Cardinality(past)]_vars

\* C4 witness: a cleanup that removed one row and kept a row whose stay ends
\* today and a row whose stay ends later.
C4_Witness ==
    /\ resp.op = "cleanup"
    /\ resp.body.to_delete = 1 /\ resp.body.deleted_count = 1
    /\ \E i \in DOMAIN store : date(substr(store[i].check_out, 10)) = Days[today]
    /\ \E i \in DOMAIN store :
          LET d == date(substr(store[i].check_out, 10))
          IN  d /= NoDate /\ DayNumber(d) > DayNumber(Days[today])

C7_DeleteContract ==
    /\ [](\A i \in 1..seq :
            i \notin DOMAIN store =>
              /\ GetResponse(store, i) = NotFound
              /\ DeleteResponse(DeleteRowcount(store, i), i) = NotFound
              /\ \A ps \in PsIn, sr \in SrIn, ex \in ExIn :
                   UpdateResult(store, i, ps, sr, ex).response = NotFound)
    /\ [][/\ \A i \in 1..seq : i \notin DOMAIN store => i \notin DOMAIN store'
          /\ \A i \in 1..MaxCreates :
               delete_reservation(i) =>
                 IF i \notin DOMAIN store
                 THEN resp'.status = 404 /\ store' = store
                 ELSE /\ resp'.status = 200
                      /\ resp'.body = [status |-> "ok", deleted_id |-> i]
                      /\ DOMAIN store' = DOMAIN store \ {i}
                      /\ \A j \in DOMAIN store' : store'[j] = store[j]]_vars

\* C7 witness: Delete of id 2 confirmed, the rows of ids 1 and 3 still stored.
C7_Witness ==
    /\ resp.op = "delete" /\ resp.status = 200
    /\ resp.body.deleted_id = 2
    /\ DOMAIN store = {1, 3}

\* C9: a CleanupExpired run right after another, on the same day, would
\* report to_delete = 0 and deleted_count = 0 and leave the table as it is.
C9_CleanupIdempotent ==
    [][cleanup_expired_reservations =>
         LET again == DeleteExpired(store', Days[today'])
         IN  /\ CountExpired(store', Days[today']) = 0
             /\ Cardinality(DOMAIN store') - Cardinality(DOMAIN again) = 0
             /\ again = store']_vars

\* C9 witness: a cleanup that removed two rows and left one; on that day no
\* stored row is expired any more.
C9_Witness ==
    /\ resp.op = "cleanup"
    /\ resp.body.deleted_count = 2
    /\ store /= NoRow
    /\ CountExpired(store, Days[today]) = 0

\* The columns no request may change after the row is created.
Frozen(r) == <<r.id, r.guest_name, r.check_out, r.created_at>>

\* The three columns PartialUpdate writes.
Updatable(r) == <<r.payment_status, r.special_requests, r.experiences>>

\* C2: no step changes id, guest data, check_out or created_at of a stored
\* row, and a PartialUpdate leaves the set of rows and every row of another
\* id as they were (a PartialUpdate answered NotFound leaves every row).
\* While the last response is that of a PartialUpdate, no other request has
\* taken a step.
C2_UpdateFrame ==
    [][/\ \A i \in DOMAIN store \cap DOMAIN store' :
             Frozen(store'[i]) = Frozen(store[i])
       /\ resp'.op = "update" =>
            /\ DOMAIN store' = DOMAIN store
            /\ \A j \in DOMAIN store :
                 (resp'.status = 200 /\ resp'.body.id = j) \/ store'[j] = store[j]]_vars

\* C2 witness: a PartialUpdate answered with a row created at an earlier
\* clock value, payment_status changed, while a second row is stored.
C2_Witness ==
    /\ resp.op = "update" /\ resp.status = 200
    /\ resp.body.guest_name = "ann" /\ resp.body.payment_status = "paid"
    /\ resp.body.created_at /= now
    /\ Cardinality(DOMAIN store) = 2
    /\ \E j \in DOMAIN store : store[j].payment_status /= "paid"

\* C3: PartialUpdate of a stored id replaces payment_status only by a
\* non-empty value, and replaces special_requests and experiences by any
\* supplied value, "" included; an absent value leaves the column as it was.
\* The response is the row as stored.
C3_UpdateFieldRules ==
    \A i \in DOMAIN store, ps \in PsIn, sr \in SrIn, ex \in ExIn :
        LET r == UpdateResult(store, i, ps, sr, ex)
        IN  /\ r.store[i].payment_status =
                  (IF ps = NULL \/ ps = "" THEN store[i].payment_status ELSE ps)
            /\ r.store[i].special_requests =
                  (IF sr = NULL THEN store[i].special_requests ELSE sr)
            /\ r.store[i].experiences =
                  (IF ex = NULL THEN store[i].experiences ELSE ex)
            /\ r.response = Ok(r.store[i])

\* C3 witness: a PartialUpdate answered with a row whose special_requests
\* is "" (None when created) and whose payment_status and experiences are
\* the created ones.
C3_Witness ==
    /\ resp.op = "update" /\ resp.status = 200
    /\ resp.body.guest_name = "bob"
    /\ resp.body.special_requests = ""
    /\ resp.body.payment_status = "paid"
    /\ resp.body.experiences = "spa"

\* created_at texts in time order: a is earlier than b.
Earlier(a, b) == a[1] < b[1] \/ (a[1] = b[1] /\ a[2] < b[2])

\* C5: ListAll answers every stored row exactly once, and no row of the
\* list has a created_at earlier than that of a row listed after it.  (While
\* the last response is a list, no request has changed the table since.)
C5_ListNewestFirst ==
    resp.op = "list" =>
        /\ Len(resp.body) = Cardinality(DOMAIN store)
        /\ \A i \in DOMAIN store : \E k \in 1..Len(resp.body) : resp.body[k] = store[i]
        /\ \A a, b \in 1..Len(resp.body) :
             a < b => ~Earlier(resp.body[a].created_at, resp.body[b].created_at)

\* Both callers have finished an update or a delete of id i.
BothDoneOn(i) ==
    \A c \in Callers :
        pc[c] = "done" /\ req[c].op \in {"update", "delete"} /\ req[c].id = i

\* C8: after two racing PartialUpdate / Delete requests on one id, the row is
\* gone or its three updatable columns are the values one caller's UPDATE
\* statement bound.
C8_NoMixedRow ==
    \A i \in 1..MaxRows :
        BothDoneOn(i) =>
          \/ i \notin DOMAIN store
          \/ \E c \in Callers :
                /\ req[c].op = "update"
                /\ written[c] /= <<>>
                /\ Updatable(store[i]) = written[c]

\* C8 witness: two updates of id 1 have finished having bound values that
\* differ in every column, and the row holds the values of caller b.
C8_Witness ==
    /\ BothDoneOn(1)
    /\ req["a"].op = "update" /\ req["b"].op = "update"
    /\ written["a"] /= <<>> /\ written["b"] /= <<>>
    /\ \A k \in 1..3 : written["a"][k] /= written["b"][k]
    /\ 1 \in DOMAIN store
    /\ Updatable(store[1]) = written["b"]

\* C10: every PartialUpdate whose first read found the row ends by
\* answering a Reservation of that id.
C10_UpdateAnswersRecord ==
    \A c \in Callers :
        (pc[c] = "done" /\ req[c].op = "update" /\ current[c] /= None) =>
           /\ ret[c].status = 200
           /\ ret[c].body.id = req[c].id

====
